---- MODULE Spec2Model ----
(***************************************************************************)
(* A model of src/main.py: the sliding-window RateLimiter and the          *)
(* TwitterScraper.fetch_user_tweets pagination loop driven by main().      *)
(*                                                                         *)
(* Time is an integer clock.  The remote API client (twikit) and the       *)
(* document store (pymongo) are the environment: a source call returns any *)
(* page (or raises), a store call applies update_one's $set/upsert         *)
(* semantics (or raises).                                                  *)
(***************************************************************************)
EXTENDS Integers, Sequences, FiniteSets

(* ------------------------------ bounds -------------------------------- *)
\* largest requests_per_window a limiter is constructed with
MaxLimit == 2
\* largest window_size a limiter is constructed with
MaxWindow == 2
\* the limiter driver lets time pass up to this instant between its calls
MaxTime == 3
\* main() lets time pass up to this instant outside the limiter's sleeps
MaxPipeTime == 1
\* number of wait_if_needed calls the limiter driver issues
MaxCalls == 5
\* largest max_tweets_per_type under an arbitrary source
MaxBudget == 2
\* largest number of tweets an arbitrary source puts in one page
MaxPage == 2
\* largest max_tweets_per_type under the source that always fills the page
MaxFullBudget == 41

(* -------------------------- program constants -------------------------- *)
\* count=min(20, ...) in the get_user_tweets call
PageSizeCap == 20

\* SCREEN_NAMES = ["DCI_Kenya"]  # Add more handles as needed: a batch of two
SCREEN_NAMES == <<"DCI_Kenya", "handle_2">>
NSubjects == Len(SCREEN_NAMES)

\* tweet_types=["Tweets", "Replies", "Media", "Likes"], cut to its first two
TweetTypes == <<"Tweets", "Replies">>

(* ------------------------------ state --------------------------------- *)
VARIABLES
    \* RateLimiter fields
    requests_per_window, window_size, requests,
    \* wall clock read by time.time()
    clock,
    \* per caller of wait_if_needed: position, local `now`, end of its sleep,
    \* number of suspensions of its current (or last) call
    lpc, lnow, lwake, lsleeps,
    \* limiter driver: calls issued so far, timestamps appended so far, the
    \* instants at which the calls returned
    ncalls, recorded, returned,
    \* main() / fetch_user_tweets: position, loop indices and locals
    pc, subj, tweet_types, max_tweets_per_type, typeIdx, tweets_fetched, cursor,
    \* the page being iterated: tweets left in it
    pageLeft,
    \* the MongoDB collection, and the exception in flight
    collection, exc,
    \* observations: the last two limiter/source/store events, the page
    \* requests of the current tweet type, the last record handed to
    \* update_one, the subjects started/finished, the subject that raised,
    \* the wait_if_needed calls completed since the current fetch_user_tweets
    \* call or its current tweet type began
    prevEvent, lastEvent, pagesReq, lastCount, lastN, lastToken, lastRec,
    started, finished, raisedSubj, nAcq

limVars == <<requests_per_window, window_size, requests, clock, lpc, lnow, lwake, lsleeps>>
drvVars == <<ncalls, recorded, returned>>
pipeVars == <<pc, subj, tweet_types, max_tweets_per_type, typeIdx, tweets_fetched,
              cursor, pageLeft, collection, exc>>
obsVars == <<prevEvent, lastEvent, pagesReq, lastCount, lastN, lastToken, lastRec,
             started, finished, raisedSubj, nAcq>>
vars == <<limVars, drvVars, pipeVars, obsVars>>

\* the callers of wait_if_needed: the scraper's coroutine, and a driver that
\* calls one limiter directly
Pipe == "scraper"
Driver == "driver"
\* a second coroutine awaiting wait_if_needed on the same RateLimiter object
Second == "driver2"
Callers == {Pipe, Driver, Second}
\* the coroutines that share the limiter in the concurrent harness
ConcCallers == {Driver, Second}

Min(a, b) == IF a < b THEN a ELSE b
Max(a, b) == IF a > b THEN a ELSE b

(* ----------------------------- RateLimiter ----------------------------- *)
\* self.requests = [r for r in self.requests if now - r < self.window_size]
Prune(reqs, now, window) == SelectSeq(reqs, LAMBDA r : now - r < window)

\* if len(self.requests) >= self.requests_per_window
MustWait(reqs, limit) == Len(reqs) >= limit

\* (variant) the caller always sleeps a whole window
SleepTime_WholeWindow(window, now, oldest) == window

\* sleep_time = self.window_size - (now - self.requests[0])
SleepTime(window, now, oldest) == window - (now - oldest)

\* (variant) nothing is removed before the append
DropFirst_Keep(reqs) == reqs

\* self.requests[1:]
DropFirst(reqs) == IF Len(reqs) = 0 THEN <<>> ELSE Tail(reqs)

\* self.requests.append(now): `now` is the local read before any sleep
AppendedStamp(nowAtEntry, nowAtResume) == nowAtEntry

\* wait_if_needed up to its return or its await asyncio.sleep(sleep_time)
WaitStart(c) ==
    LET now == clock
        kept == Prune(requests, now, window_size)
    IN  /\ lpc[c] = "idle"
        /\ IF MustWait(kept, requests_per_window)
             THEN LET sleep_time == SleepTime(window_size, now, kept[1])
                  IN  IF sleep_time > 0
                        THEN /\ requests' = kept
                             /\ lpc' = [lpc EXCEPT ![c] = "sleeping"]
                             /\ lnow' = [lnow EXCEPT ![c] = now]
                             /\ lwake' = [lwake EXCEPT ![c] = now + sleep_time]
                             /\ lsleeps' = [lsleeps EXCEPT ![c] = 1]
                        ELSE /\ requests' = Append(DropFirst(kept), now)
                             /\ lsleeps' = [lsleeps EXCEPT ![c] = 0]
                             /\ UNCHANGED <<lpc, lnow, lwake>>
             ELSE /\ requests' = Append(kept, now)
                  /\ lsleeps' = [lsleeps EXCEPT ![c] = 0]
                  /\ UNCHANGED <<lpc, lnow, lwake>>
        /\ UNCHANGED <<requests_per_window, window_size, clock>>

\* (variant) the caller goes back to sleep instead of returning
AfterSleepPc_SleepAgain == "sleeping"

\* where a caller is after its sleep completed
AfterSleepPc == "idle"

\* the sleep completes at or after its deadline; the rest of wait_if_needed runs
WaitResume(c) ==
    /\ lpc[c] = "sleeping"
    /\ clock' = Max(clock, lwake[c])
    /\ requests' = Append(DropFirst(requests), AppendedStamp(lnow[c], clock'))
    /\ lpc' = [lpc EXCEPT ![c] = AfterSleepPc]
    /\ lnow' = [lnow EXCEPT ![c] = 0]
    /\ lwake' = [lwake EXCEPT ![c] = 0]
    \* staying suspended is one more suspension of the same call
    /\ lsleeps' = [lsleeps EXCEPT ![c] = IF AfterSleepPc = "idle" THEN @ ELSE Min(@ + 1, 2)]
    /\ UNCHANGED <<requests_per_window, window_size>>

\* time passes, up to the instant upTo
Tick(upTo) ==
    /\ clock < upTo
    /\ clock' = clock + 1
    /\ UNCHANGED <<requests_per_window, window_size, requests, lpc, lnow, lwake, lsleeps>>
    /\ UNCHANGED <<drvVars, pipeVars, obsVars>>

DrvTick == Tick(MaxTime)

PipeTick == Tick(MaxPipeTime)

(* --------------------------- limiter driver ---------------------------- *)
\* caller c enters wait_if_needed at the current instant
CallBy(c) ==
    /\ ncalls < MaxCalls
    /\ WaitStart(c)
    /\ ncalls' = ncalls + 1
    /\ IF lpc'[c] = "idle"
         THEN /\ recorded' = Append(recorded, requests'[Len(requests')])
              /\ returned' = Append(returned, clock')
         ELSE UNCHANGED <<recorded, returned>>
    /\ UNCHANGED <<pipeVars, obsVars>>

\* caller c's sleep completes and its call returns
ResumeBy(c) ==
    /\ WaitResume(c)
    /\ recorded' = Append(recorded, requests'[Len(requests')])
    /\ returned' = IF lpc'[c] = "idle" THEN Append(returned, clock') ELSE returned
    /\ UNCHANGED <<ncalls, pipeVars, obsVars>>

\* one caller issuing wait_if_needed calls one at a time, at arbitrary instants
DrvCall == CallBy(Driver)

DrvResume == ResumeBy(Driver)

(* ------------------------ source and store (environment) --------------- *)
Ids == {1, 2}
\* a page's next_cursor: the attribute is missing, or is None, or is a token
Tokens == {"t1", "t2"}
TokenVals == {"absent", "None"} \cup Tokens

\* a tweet as the pipeline reads it: its id and whether tweet.user is set.
\* Tweet 1 comes with or without its user, tweet 2 always without
Tweets == {t \in [id : Ids, user : BOOLEAN] : t.user => t.id = 1}

\* fetch_tweet_details' tweet_data plus tweet_data['tweet_type'] = tweet_type.
\* The keys that are always written (text, counts, scraped_at, ...) behave
\* like tweet_type and are left out; 'user' is written only if tweet.user
BuildRecord(tweet, tweet_type) ==
    IF tweet.user
      THEN [k \in {"id", "tweet_type", "user"} |->
              IF k = "id" THEN tweet.id ELSE IF k = "tweet_type" THEN tweet_type ELSE "user"]
      ELSE [k \in {"id", "tweet_type"} |->
              IF k = "id" THEN tweet.id ELSE tweet_type]

\* {'$set': tweet_data} on a matching document: the given keys are written,
\* the document's other keys stay
SetFields(doc, data) ==
    [k \in DOMAIN doc \cup DOMAIN data |-> IF k \in DOMAIN data THEN data[k] ELSE doc[k]]

\* collection.update_one({'id': id}, {'$set': tweet_data}, upsert=True)
UpdateOne(coll, data) ==
    LET hits == {d \in coll : d["id"] = data["id"]}
    IN  IF hits = {}
          THEN coll \cup {data}
          ELSE LET d == CHOOSE x \in hits : TRUE
               IN  (coll \ {d}) \cup {SetFields(d, data)}

(* --------------------------- fetch_user_tweets ------------------------- *)
\* (variant) the page size ignores what is left of the budget
PageCount_NoMin(budget, fetched) == PageSizeCap

\* count=min(20, max_tweets_per_type - tweets_fetched)
PageCount(budget, fetched) == Min(PageSizeCap, budget - fetched)

\* (variant) while True
WhilePc_NoTest(fetched, budget) == "acq_page"

\* while tweets_fetched < max_tweets_per_type: the loop goes on to the
\* limiter call before the next page, or the for loop takes the next type
WhilePc(fetched, budget) == IF fetched < budget THEN "acq_page" ELSE "for_type"

\* (variant) the tweets of a page are stored without asking the limiter
AfterPagePc_NoLimiter(n) == IF n = 0 THEN "for_type" ELSE "upsert"

\* (variant) an empty page does not end the while loop
AfterPagePc_NoBreak(n) == IF n = 0 THEN "acq_page" ELSE "acq_details"

\* if not tweets: break; else the for loop over the page starts
AfterPagePc(n) == IF n = 0 THEN "for_type" ELSE "acq_details"

\* hasattr(tweets, 'next_cursor')
HasNextCursor(token) == token # "absent"

\* (variant) the cursor is never advanced
NextCursor_Stale(token, cur) == cur

\* if hasattr(tweets, 'next_cursor'): cursor = tweets.next_cursor
NextCursor(token, cur) == IF HasNextCursor(token) THEN token ELSE cur

\* (variant) no wait_if_needed of its own before update_one
AfterAcquirePc_OneAcquire(at) ==
    CASE at = "acq_user" -> "get_user"
      [] at = "acq_page" -> "get_page"
      [] at = "acq_details" -> "upsert"
      [] at = "acq_upsert" -> "upsert"

\* the statement after a completed wait_if_needed
AfterAcquirePc(at) ==
    CASE at = "acq_user" -> "get_user"
      [] at = "acq_page" -> "get_page"
      [] at = "acq_details" -> "acq_upsert"
      [] at = "acq_upsert" -> "upsert"

AcquirePcs == {"acq_user", "acq_page", "acq_details", "acq_upsert"}

\* (variant) the handler logs and returns: main goes on with its for loop
FetchExceptPc_Swallow == "for_subject"

\* except Exception as e: logger.error(...); raise
FetchExceptPc == "except_main"

\* main's for loop: the next screen name, or the loop is over
ForSubjectPc(s) == IF s < NSubjects THEN "acq_user" ELSE "finally"

Event(e) == /\ prevEvent' = lastEvent
            /\ lastEvent' = e

\* an exception leaves the try block of fetch_user_tweets
Raise(what) ==
    /\ exc' = what
    /\ pc' = "except_fetch"
    /\ raisedSubj' = subj

\* for screen_name in SCREEN_NAMES: await scraper.fetch_user_tweets(...)
MainNextSubject ==
    /\ pc = "for_subject"
    /\ pc' = ForSubjectPc(subj)
    /\ IF subj < NSubjects
         THEN /\ subj' = subj + 1
              /\ started' = started \cup {subj + 1}
         ELSE UNCHANGED <<subj, started>>
    /\ UNCHANGED <<tweet_types, max_tweets_per_type, typeIdx, tweets_fetched, cursor,
                   pageLeft, collection, exc>>
    /\ nAcq' = 0
    /\ UNCHANGED <<prevEvent, lastEvent, pagesReq, lastCount, lastN, lastToken, lastRec,
                   finished, raisedSubj>>
    /\ UNCHANGED <<limVars, drvVars>>

\* await self.rate_limiter.wait_if_needed(), up to its return or its sleep
Acquire ==
    /\ pc \in AcquirePcs
    /\ WaitStart(Pipe)
    /\ IF lpc'[Pipe] = "idle"
         THEN /\ pc' = AfterAcquirePc(pc)
              /\ Event("acq")
              /\ nAcq' = nAcq + 1
         ELSE UNCHANGED <<pc, prevEvent, lastEvent, nAcq>>
    /\ UNCHANGED <<subj, tweet_types, max_tweets_per_type, typeIdx, tweets_fetched, cursor,
                   pageLeft, collection, exc>>
    /\ UNCHANGED <<pagesReq, lastCount, lastN, lastToken, lastRec, started, finished,
                   raisedSubj>>
    /\ UNCHANGED drvVars

\* the limiter's sleep completes and wait_if_needed returns
AcquireResume ==
    /\ pc \in AcquirePcs
    /\ WaitResume(Pipe)
    /\ IF lpc'[Pipe] = "idle"
         THEN /\ pc' = AfterAcquirePc(pc)
              /\ Event("acq")
              /\ nAcq' = nAcq + 1
         ELSE UNCHANGED <<pc, prevEvent, lastEvent, nAcq>>
    /\ UNCHANGED <<subj, tweet_types, max_tweets_per_type, typeIdx, tweets_fetched, cursor,
                   pageLeft, collection, exc>>
    /\ UNCHANGED <<pagesReq, lastCount, lastN, lastToken, lastRec, started, finished,
                   raisedSubj>>
    /\ UNCHANGED drvVars

\* user = await self.client.get_user_by_screen_name(screen_name)
GetUser ==
    /\ pc = "get_user"
    /\ Event("source")
    /\ \/ /\ pc' = "for_type"
          /\ typeIdx' = 0
          /\ UNCHANGED <<exc, raisedSubj>>
       \/ /\ Raise("source")
          /\ UNCHANGED typeIdx
    /\ UNCHANGED <<subj, tweet_types, max_tweets_per_type, tweets_fetched, cursor,
                   pageLeft, collection>>
    /\ UNCHANGED <<pagesReq, lastCount, lastN, lastToken, lastRec, started, finished, nAcq>>
    /\ UNCHANGED <<limVars, drvVars>>

\* for tweet_type in tweet_types: tweets_fetched = 0; cursor = None; the
\* first test of the while loop.  After the last type the call returns.
NextType ==
    /\ pc = "for_type"
    /\ IF typeIdx < Len(tweet_types)
         THEN /\ typeIdx' = typeIdx + 1
              /\ tweets_fetched' = 0
              /\ cursor' = "None"
              /\ pagesReq' = 0
              /\ lastCount' = 0
              /\ lastN' = 0
              /\ lastToken' = "None"
              /\ pc' = WhilePc(0, max_tweets_per_type)
              /\ UNCHANGED finished
         ELSE /\ finished' = finished \cup {subj}
              /\ pc' = "for_subject"
              /\ pagesReq' = 0
              /\ lastCount' = 0
              /\ lastN' = 0
              /\ lastToken' = "None"
              /\ UNCHANGED <<typeIdx, tweets_fetched, cursor>>
    /\ nAcq' = 0
    /\ UNCHANGED <<subj, tweet_types, max_tweets_per_type, pageLeft, collection, exc>>
    /\ UNCHANGED <<prevEvent, lastEvent, lastRec, started, raisedSubj>>
    /\ UNCHANGED <<limVars, drvVars>>

\* the source answers get_user_tweets with a page of n tweets and a next_cursor
PageReturned(n, token) ==
    /\ pagesReq' = pagesReq + 1
    /\ lastCount' = PageCount(max_tweets_per_type, tweets_fetched)
    /\ lastN' = n
    /\ lastToken' = token
    /\ pageLeft' = n
    /\ pc' = AfterPagePc(n)
    /\ UNCHANGED <<exc, raisedSubj>>

GetTweetsFrame ==
    /\ UNCHANGED <<subj, tweet_types, max_tweets_per_type, typeIdx, tweets_fetched, cursor,
                   collection>>
    /\ UNCHANGED <<lastRec, started, finished, nAcq>>
    /\ UNCHANGED <<limVars, drvVars>>

\* tweets = await self.client.get_user_tweets(user.id, tweet_type, count, cursor)
\* against a source that returns whatever it likes, or fails
GetUserTweets ==
    /\ pc = "get_page"
    /\ Event("source")
    /\ \/ \E n \in 0..MaxPage, token \in TokenVals : PageReturned(n, token)
       \/ /\ Raise("source")
          /\ UNCHANGED <<pagesReq, lastCount, lastN, lastToken, pageLeft>>
    /\ GetTweetsFrame

\* the same call against a source that always returns exactly `count` tweets
\* and a continuation token (a new one for each page of a tweet type)
GetUserTweetsFull ==
    /\ pc = "get_page"
    /\ Event("source")
    /\ PageReturned(PageCount(max_tweets_per_type, tweets_fetched),
                    IF pagesReq % 2 = 0 THEN "t1" ELSE "t2")
    /\ GetTweetsFrame

\* (variant) a page without next_cursor returns from fetch_user_tweets
PageEndPc_Return(token, fetched, budget) ==
    IF HasNextCursor(token) THEN WhilePc(fetched, budget) ELSE "for_subject"

\* the end of the for loop over the page: cursor = tweets.next_cursor and the
\* while test, or break
PageEndPc(token, fetched, budget) ==
    IF HasNextCursor(token) THEN WhilePc(fetched, budget) ELSE "for_type"

\* one iteration of `for tweet in tweets` from the built record on:
\* collection.update_one(...); tweets_fetched += 1; and, after the last
\* tweet of the page, the cursor step
UpdateOneStep ==
    /\ pc = "upsert"
    /\ Event("store")
    /\ \/ \E tweet \in Tweets :
            LET data == BuildRecord(tweet, tweet_types[typeIdx])
            IN  /\ collection' = UpdateOne(collection, data)
                /\ lastRec' = data
                /\ tweets_fetched' = tweets_fetched + 1
                /\ pageLeft' = pageLeft - 1
                /\ IF pageLeft' > 0
                     THEN /\ pc' = "acq_details"
                          /\ UNCHANGED cursor
                     ELSE /\ pc' = PageEndPc(lastToken, tweets_fetched', max_tweets_per_type)
                          /\ cursor' = NextCursor(lastToken, cursor)
                /\ UNCHANGED <<exc, raisedSubj>>
       \/ /\ Raise("store")
          /\ UNCHANGED <<collection, lastRec, tweets_fetched, pageLeft, cursor>>
    /\ UNCHANGED <<subj, tweet_types, max_tweets_per_type, typeIdx>>
    /\ UNCHANGED <<pagesReq, lastCount, lastN, lastToken, started, finished, nAcq>>
    /\ UNCHANGED <<limVars, drvVars>>

\* (variant) the handlers delete what the run stored
HandlerFrame_Rollback ==
    /\ collection' = {}
    /\ UNCHANGED <<subj, tweet_types, max_tweets_per_type, typeIdx, tweets_fetched, cursor,
                   pageLeft>>
    /\ UNCHANGED obsVars
    /\ UNCHANGED <<limVars, drvVars>>

\* the except and finally blocks log, re-raise and close the client: they
\* touch neither the locals nor the collection
HandlerFrame ==
    /\ UNCHANGED <<subj, tweet_types, max_tweets_per_type, typeIdx, tweets_fetched, cursor,
                   pageLeft, collection>>
    /\ UNCHANGED obsVars
    /\ UNCHANGED <<limVars, drvVars>>

\* fetch_user_tweets: except Exception as e: logger.error(...); raise
FetchExcept ==
    /\ pc = "except_fetch"
    /\ pc' = FetchExceptPc
    /\ UNCHANGED exc
    /\ HandlerFrame

\* main: except Exception as e: logger.error(...)
MainExcept ==
    /\ pc = "except_main"
    /\ pc' = "finally"
    /\ exc' = "none"
    /\ HandlerFrame

\* main: finally: scraper.close()
Close ==
    /\ pc = "finally"
    /\ pc' = "done"
    /\ UNCHANGED exc
    /\ HandlerFrame

(* --------------------------- specifications ---------------------------- *)
NoRec == [id |-> 0]

\* RateLimiter.__init__ with the given parameters
LimiterInit(limits, windows) ==
    /\ requests_per_window \in limits
    /\ window_size \in windows
    /\ requests = <<>>
    /\ clock = 0
    /\ lpc = [c \in Callers |-> "idle"]
    /\ lnow = [c \in Callers |-> 0]
    /\ lwake = [c \in Callers |-> 0]
    /\ lsleeps = [c \in Callers |-> 0]
    /\ ncalls = 0
    /\ recorded = <<>>
    /\ returned = <<>>

PipeInit(budgets) ==
    /\ pc = "for_subject"
    /\ subj = 0
    /\ tweet_types = TweetTypes
    /\ max_tweets_per_type \in budgets
    /\ typeIdx = 0
    /\ tweets_fetched = 0
    /\ cursor = "None"
    /\ pageLeft = 0
    /\ collection = {}
    /\ exc = "none"
    /\ prevEvent = "none"
    /\ lastEvent = "none"
    /\ pagesReq = 0
    /\ lastCount = 0
    /\ lastN = 0
    /\ lastToken = "None"
    /\ lastRec = NoRec
    /\ started = {}
    /\ finished = {}
    /\ raisedSubj = 0
    /\ nAcq = 0

\* main() against an arbitrary source and store.  The scraper's limiter is
\* the tightest one (the source builds RateLimiter(300) with a 60 s window):
\* every second acquisition sleeps
Init == LimiterInit({1}, {1}) /\ PipeInit(1..MaxBudget)

Next ==
    \/ PipeTick
    \/ MainNextSubject
    \/ Acquire
    \/ AcquireResume
    \/ GetUser
    \/ NextType
    \/ GetUserTweets
    \/ UpdateOneStep
    \/ FetchExcept
    \/ MainExcept
    \/ Close

Spec == Init /\ [][Next]_vars

\* the statements of main() and fetch_user_tweets: each awaited call returns
\* or raises, and the event loop then runs the coroutine's next statement
PipeStep ==
    \/ MainNextSubject
    \/ Acquire
    \/ AcquireResume
    \/ GetUser
    \/ NextType
    \/ GetUserTweets
    \/ UpdateOneStep
    \/ FetchExcept
    \/ MainExcept
    \/ Close

\* main() against the source that always fills the page and gives a token
FullInit == LimiterInit({1}, {1}) /\ PipeInit(1..MaxFullBudget)

FullNext ==
    \/ PipeTick
    \/ MainNextSubject
    \/ Acquire
    \/ AcquireResume
    \/ GetUser
    \/ NextType
    \/ GetUserTweetsFull
    \/ UpdateOneStep
    \/ FetchExcept
    \/ MainExcept
    \/ Close

FullSpec == FullInit /\ [][FullNext]_vars

\* one caller driving a limiter with wait_if_needed calls
LimInit == LimiterInit(1..MaxLimit, 1..MaxWindow) /\ PipeInit({1})

LimNext ==
    \/ DrvTick
    \/ DrvCall
    \/ DrvResume

LimSpec == LimInit /\ [][LimNext]_vars

\* two coroutines sharing one limiter: each runs wait_if_needed up to its
\* await, where the event loop may run the other one
ConcNext ==
    \/ DrvTick
    \/ \E c \in ConcCallers : CallBy(c)
    \/ \E c \in ConcCallers : ResumeBy(c)

ConcSpec == LimInit /\ [][ConcNext]_vars

\* a sleeping caller is eventually resumed: asyncio.sleep completes
LimLive == LimInit /\ [][LimNext]_vars /\ WF_vars(DrvResume)

(* ------------------------------- claims -------------------------------- *)
CeilDiv(a, b) == (a + b - 1) \div b

\* the positions from the raise of an exception to the end of main()
ErrorPcs == {"except_fetch", "except_main", "finally", "done"}

\* C1: no half-open interval of duration window_size holds more than
\* requests_per_window of the timestamps the calls appended
C1_LimiterBound ==
    \A i \in DOMAIN recorded :
        Cardinality({j \in DOMAIN recorded :
                        /\ recorded[i] <= recorded[j]
                        /\ recorded[j] < recorded[i] + window_size})
          <= requests_per_window

\* C2: when main() is over, fetch_user_tweets was invoked for every screen
\* name of the batch, whether or not an earlier one raised, and every
\* subject that did not raise itself ran all its tweet types
C2_SubjectIsolation ==
    pc = "done" =>
        /\ started = 1..NSubjects
        /\ \A s \in 1..NSubjects : s # raisedSubj => s \in finished

\* C3: every source call and every store call directly follows a completed
\* limiter acquisition: no two of them without an acquisition in between
C3_LimiterBeforeCall ==
    lastEvent \in {"source", "store"} => prevEvent = "acq"

C3_Witness ==
    /\ lastEvent = "store"
    /\ prevEvent = "acq"
    /\ pagesReq = 2
    /\ subj = 2

\* C4: against the source that always returns a token and as many tweets as
\* asked, the k-th page request of a tweet type asks for
\* min(20, budget - 20 (k - 1)) tweets, and a tweet type ends after exactly
\* ceil(budget / 20) page requests and exactly budget tweets
C4_PaginationTermination ==
    /\ pagesReq >= 1 =>
          lastCount = Min(PageSizeCap, max_tweets_per_type - PageSizeCap * (pagesReq - 1))
    /\ (pc = "for_type" /\ typeIdx >= 1) =>
          /\ pagesReq = CeilDiv(max_tweets_per_type, PageSizeCap)
          /\ tweets_fetched = max_tweets_per_type

C4_Witness ==
    /\ pc = "for_type"
    /\ typeIdx = 2
    /\ max_tweets_per_type = 41
    /\ pagesReq = 3
    /\ lastCount = 1
    /\ tweets_fetched = 41

\* C5: a page request never follows, within the same tweet type, a non-empty
\* page that carried no continuation token (no next_cursor, or next_cursor
\* None)
C5_MissingCursorTermination ==
    [][pagesReq' = pagesReq + 1 =>
          ~(pagesReq >= 1 /\ lastN > 0 /\ lastToken \in {"absent", "None"})]_vars

\* C6: once a page came back empty, the tweet type is over at once: the
\* pipeline stands at the for loop over the tweet types (no upsert, no page
\* request) with no exception raised, whatever is left of the budget
C6_EmptyPageTermination ==
    (pagesReq >= 1 /\ lastN = 0) =>
        /\ pc = "for_type"
        /\ exc = "none"
        /\ raisedSubj = 0
        /\ pageLeft = 0

C6_Witness ==
    /\ pagesReq = 2
    /\ lastN = 0
    /\ tweets_fetched < max_tweets_per_type
    /\ pc = "for_type"
    /\ typeIdx = 1

\* C7: after an upsert the collection holds exactly one document with the
\* upserted id and that document is exactly the record just upserted; no id
\* has two documents
C7_IdempotentUpsert ==
    /\ \A id \in Ids : Cardinality({d \in collection : d["id"] = id}) <= 1
    /\ lastRec # NoRec => {d \in collection : d["id"] = lastRec["id"]} = {lastRec}

\* C8: a call of wait_if_needed suspends at most once, and a suspended call
\* returns
C8_NonStarvation ==
    /\ [](\A c \in Callers : lsleeps[c] <= 1)
    /\ (lpc[Driver] = "sleeping") ~> (lpc[Driver] = "idle")

C8_Witness ==
    /\ lpc[Driver] = "idle"
    /\ lsleeps[Driver] = 1
    /\ ncalls = MaxCalls

\* C9: once the source or the store raised for a subject, the pipeline is
\* at no statement of that subject's try block any more (no limiter, source
\* or store call, no further tweet type), the limiter call of the scraper is
\* not pending, and the exception is in flight up to main's handler
C9_FailureAborts ==
    (raisedSubj # 0 /\ subj = raisedSubj) =>
        /\ pc \in ErrorPcs
        /\ lpc[Pipe] = "idle"
        /\ pc \in {"except_fetch", "except_main"} => exc # "none"
        /\ raisedSubj \notin finished

C9_Witness ==
    /\ raisedSubj = 1
    /\ pc = "done"
    /\ typeIdx = 1
    /\ lastEvent = "store"
    /\ collection # {}

\* C10: tweets_fetched never exceeds max_tweets_per_type
C10_BudgetCap == tweets_fetched <= max_tweets_per_type

\* C11: when a call that suspended resumes, it removes the oldest recorded
\* timestamp and the timestamp it appends is the instant at which it resumed
C11_StampAfterSuspension ==
    [][(lpc[Driver] = "sleeping" /\ lpc'[Driver] = "idle") =>
          /\ Len(requests') = Len(requests)
          /\ SubSeq(requests', 1, Len(requests') - 1) = DropFirst(requests)
          /\ requests'[Len(requests')] = clock']_vars

\* C12: with calls made one at a time, no half-open interval of length
\* window_size contains more than requests_per_window return instants
C12_CallSiteBound ==
    \A i \in 1..Len(returned) :
        Cardinality({j \in i..Len(returned) :
                        returned[j] < returned[i] + window_size})
            <= requests_per_window

\* C13: a call suspends exactly when the pruned list holds requests_per_window
\* timestamps, then for window_size - (now - oldest kept timestamp), a delay
\* in 1..window_size; below the limit it appends now and returns at once
C13_SuspensionAndDelay ==
    [][(ncalls' = ncalls + 1) =>
          LET now == clock
              kept == SelectSeq(requests, LAMBDA r : now - r < window_size)
          IN  /\ Len(kept) <= requests_per_window
              /\ (lpc'[Driver] = "sleeping") <=> (Len(kept) = requests_per_window)
              /\ Len(kept) = requests_per_window =>
                    /\ lwake'[Driver] - now = window_size - (now - kept[1])
                    /\ lwake'[Driver] - now \in 1..window_size
                    /\ returned' = returned
              /\ Len(kept) < requests_per_window =>
                    /\ requests' = Append(kept, now)
                    /\ returned' = Append(returned, now)
                    /\ clock' = clock]_vars

C13_Witness ==
    /\ requests_per_window = 2
    /\ window_size = 2
    /\ lpc[Driver] = "sleeping"
    /\ requests = <<0, 1>>
    /\ lnow[Driver] = 1
    /\ lwake[Driver] = 2

\* C14 (as claimed): a tweet type that requested P pages and stored N tweets
\* made P + N limiter acquisitions, after the one acquisition of the resolve
C14_OneAcquisitionPerItem ==
    /\ (pc = "for_type" /\ typeIdx = 0) => nAcq = 1
    /\ (pc = "for_type" /\ typeIdx >= 1) => nAcq = pagesReq + tweets_fetched

\* C14 (amended): every stored tweet costs two acquisitions, the one inside
\* fetch_tweet_details and the one before update_one: a tweet type that
\* requested P pages and stored N tweets made P + 2 * N acquisitions, after
\* the one acquisition of the resolve
C14_TwoAcquisitionsPerItem ==
    /\ (pc = "for_type" /\ typeIdx = 0) => nAcq = 1
    /\ (pc = "for_type" /\ typeIdx >= 1) => nAcq = pagesReq + 2 * tweets_fetched
    /\ pc = "upsert" => nAcq = pagesReq + 2 * tweets_fetched + 2

C14_Witness ==
    /\ pc = "for_type"
    /\ typeIdx = Len(tweet_types)
    /\ pagesReq = 2
    /\ tweets_fetched = 2
    /\ nAcq = 6

\* C15: between a caller's decision to sleep and its removal and append no
\* other caller changes the timestamps, and the timestamp the caller then
\* removes is the one that was oldest when it decided (its wake-up instant
\* minus window_size)
C15_AtomicReadPruneAppend ==
    [][\A c \in ConcCallers :
          /\ (lpc[c] = "sleeping" /\ lpc'[c] = "sleeping") => requests' = requests
          /\ (lpc[c] = "sleeping" /\ lpc'[c] = "idle") =>
                /\ Len(requests) > 0
                /\ requests[1] = lwake[c] - window_size]_vars

\* C18: the timestamps list never holds more than requests_per_window + 1
\* entries, whatever the interleaving of the callers
C18_LengthBound == Len(requests) <= requests_per_window + 1

C18_Witness ==
    /\ \A c \in ConcCallers : lpc[c] = "sleeping"
    /\ requests_per_window = 2
    /\ Len(requests) = 2
    /\ clock > 0

\* a step that starts a tweet type, one that requests a page, and one that
\* stores the last tweet of a page
IsTypeStart == typeIdx' = typeIdx + 1
IsPageRequest == pagesReq' = pagesReq + 1
IsPageEnd == pc = "upsert" /\ tweets_fetched' = tweets_fetched + 1 /\ pageLeft' = 0

\* C16 (as claimed): the first page request of a tweet type is made with
\* cursor None and tweets_fetched 0, a later one with the token of the page
\* before it; the cursor is set to the page's token at the end of every
\* non-empty page, changes at no other step of the tweet type, and is None
\* again when the next tweet type starts
C16_CursorPassThrough ==
    [][/\ IsPageRequest =>
            /\ cursor = (IF pagesReq = 0 THEN "None" ELSE lastToken)
            /\ pagesReq = 0 => tweets_fetched = 0
            /\ cursor' = cursor
       /\ IsPageEnd => cursor' = lastToken
       /\ IsTypeStart => cursor' = "None"
       /\ (~IsPageEnd /\ typeIdx' = typeIdx) => cursor' = cursor]_vars

\* C16 (amended): as above, but the cursor is set only at the end of a
\* non-empty page that carries a next_cursor; a page without one leaves the
\* cursor as it was and ends the tweet type, so that cursor is never passed
C16_CursorPassThroughIfToken ==
    [][/\ IsPageRequest =>
            /\ cursor = (IF pagesReq = 0 THEN "None" ELSE lastToken)
            /\ pagesReq = 0 => tweets_fetched = 0
            /\ cursor' = cursor
       /\ (IsPageEnd /\ lastToken # "absent") => cursor' = lastToken
       /\ (IsPageEnd /\ lastToken = "absent") => (cursor' = cursor /\ pc' = "for_type")
       /\ IsTypeStart => cursor' = "None"
       /\ (~IsPageEnd /\ typeIdx' = typeIdx) => cursor' = cursor]_vars

C16_Witness ==
    /\ typeIdx = 2
    /\ pagesReq = 2
    /\ cursor = "t1"
    /\ lastToken = "t2"
    /\ pc = "acq_details"

\* C17: the tweet types are started one after the other in list order, the
\* step after a tweet type ended (by its budget, an empty page or a missing
\* next_cursor) starts the next one, fetch_user_tweets returns without an
\* error only after the last one, and a page is requested only when every
\* tweet of the page before it was stored
C17_CategorySequencing ==
    [][/\ typeIdx' # typeIdx =>
            \/ typeIdx' = typeIdx + 1 /\ typeIdx' <= Len(tweet_types)
            \/ pc = "get_user" /\ typeIdx' = 0
       /\ (pc = "for_type" /\ pc' # pc) =>
            IF typeIdx < Len(tweet_types)
              THEN typeIdx' = typeIdx + 1 /\ pc' \in {"acq_page", "for_type"}
              ELSE pc' = "for_subject" /\ finished' = finished \cup {subj}
       /\ (pc # "for_subject" /\ pc' = "for_subject") =>
            typeIdx = Len(tweet_types) /\ raisedSubj # subj
       /\ IsPageRequest => pageLeft = 0
       /\ (pc # "for_type" /\ pc' = "for_type" /\ pc # "get_user") =>
            /\ pageLeft' = 0
            /\ \/ tweets_fetched' >= max_tweets_per_type
               \/ lastN' = 0
               \/ lastToken' = "absent"]_vars

C17_Witness ==
    /\ pc = "for_subject"
    /\ subj = 1
    /\ finished = {1}
    /\ typeIdx = Len(tweet_types)
    /\ Cardinality(collection) = 2
    /\ \E r \in collection : r.tweet_type = tweet_types[1]
    /\ \E r \in collection : r.tweet_type = tweet_types[2]

\* the position of a statement in the order in which one pass of main()
\* runs them, counted from the end
PcRank ==
    [done |-> 0, finally |-> 1, except_main |-> 2, except_fetch |-> 3,
     for_subject |-> 4, for_type |-> 5, upsert |-> 6, acq_upsert |-> 7,
     acq_details |-> 8, get_page |-> 9, acq_page |-> 10, get_user |-> 11,
     acq_user |-> 12]

\* what is left to do, most significant first: screen names, tweet types of
\* the current call, budget not covered by the pages received, tweets of the
\* current page, statements of the current iteration, the limiter's sleep
SubjectsLeft == NSubjects - subj
TypesLeft == IF pc \in {"acq_user", "get_user"}
               THEN Len(tweet_types) + 1
               ELSE Len(tweet_types) - typeIdx
BudgetLeft == Max(0, max_tweets_per_type - tweets_fetched - pageLeft)
Position == 2 * PcRank[pc] + (IF lpc[Pipe] = "idle" THEN 1 ELSE 0)

\* this step lowers the measure in the lexicographic order
MeasureDrops ==
    IF SubjectsLeft' # SubjectsLeft THEN SubjectsLeft' < SubjectsLeft
    ELSE IF TypesLeft' # TypesLeft THEN TypesLeft' < TypesLeft
    ELSE IF BudgetLeft' # BudgetLeft THEN BudgetLeft' < BudgetLeft
    ELSE IF pageLeft' # pageLeft THEN pageLeft' < pageLeft
    ELSE Position' < Position

\* C19: a tweet type makes at most max_tweets_per_type page requests, and
\* whatever the source returns (page sizes, tokens) the run ends after
\* finitely many steps: until main() is over a statement can always run,
\* and every statement that runs lowers a measure that cannot fall for ever
C19_RunTermination ==
    [][/\ pagesReq' <= max_tweets_per_type
       /\ pc # "done" => ENABLED PipeStep
       /\ SubjectsLeft >= 0 /\ TypesLeft >= 0 /\ pageLeft >= 0
       /\ (pc' # pc \/ pageLeft' # pageLeft \/ lpc'[Pipe] # lpc[Pipe]) => MeasureDrops]_vars

C19_Witness ==
    /\ pc = "for_type"
    /\ typeIdx = Len(tweet_types)
    /\ max_tweets_per_type = MaxBudget
    /\ pagesReq = MaxBudget
    /\ tweets_fetched = MaxBudget
    /\ lastToken \in Tokens

\* C20: the collection changes only by an update_one that succeeded: the
\* call that raises leaves it as it was, and so does every step from the
\* raise to the end of main() (the handlers and the close)
C20_NoRollback ==
    [][/\ (pc \notin ErrorPcs /\ pc' = "except_fetch") => collection' = collection
       /\ pc \in ErrorPcs => collection' = collection
       /\ collection' # collection =>
            /\ pc = "upsert"
            /\ tweets_fetched' = tweets_fetched + 1
            /\ lastEvent' = "store"
            /\ raisedSubj' = raisedSubj]_vars

C20_Witness ==
    /\ pc = "done"
    /\ raisedSubj = 2
    /\ lastEvent = "store"
    /\ Cardinality(collection) = 2
    /\ \E d \in collection : "user" \in DOMAIN d

====
